---- MODULE Spec2Model ----
(***************************************************************************)
(* Elliptic-curve arithmetic (ecc_core.py), ECDH (ecdh.py) and ECDSA with  *)
(* RFC 6979 nonces (ecdsa.py), on small short-Weierstrass curves.          *)
(*                                                                         *)
(* The 256-bit named curves are replaced by curves over 4- and 5-bit       *)
(* primes and SHA-256 / HMAC-SHA-256 by a one-byte digest; every formula   *)
(* of the source is kept as written.                                       *)
(***************************************************************************)
EXTENDS Integers, Sequences, FiniteSets, TLC

\* ------------------------------------------------------------------ bounds
\* Messages are the one-byte strings <<0>> .. <<MaxMsg - 1>>.
MaxMsg == 2
\* Scalars of the arithmetic range over -(n + ScalarSlack) .. 2n + ScalarSlack.
ScalarSlack == 2
\* Coordinates offered to the Point constructor: -CoordSlack .. p + CoordSlack.
CoordSlack == 1
\* Depth at which the interpreter ends a recursion with RecursionError.
MaxDepth == 2
\* r and s offered to verify_signature range over -SigSlack .. n + SigSlack.
SigSlack == 1

VARIABLES
    curve,   \* the Curve object in use (a key of CurveTable)
    regP,    \* arithmetic: a Point held by the caller
    res,     \* arithmetic: the last operation, its arguments and its outcome
    kpA,     \* key pair of party A: how it was generated, d and Q
    kpB,     \* key pair of party B
    rng,     \* number of draws taken from the secure random source
    secA,    \* ECDH: the shared secret A derived
    secB,    \* ECDH: the shared secret B derived
    pc,      \* sign_message: where the call stands, or the exception it raised
    sm,      \* sign_message: the message being signed
    hst,     \* _rfc6979_k: the HMAC key k and value v
    nonce,   \* sign_message: the nonce _rfc6979_k returned
    depth,   \* sign_message: number of nested calls below the caller's
    sig,     \* sign_message: the signature returned
    sigs,    \* every (message, r, s) A's sign_message calls have returned, with the
             \* number of random draws taken before the call returned
    ver      \* verify_signature: the last call, its arguments and its result

arithVars == <<regP, res>>
keyVars == <<kpA, kpB, rng>>
dhVars == <<secA, secB>>
signVars == <<pc, sm, hst, nonce, depth, sig, sigs>>
protoVars == <<kpA, kpB, rng, secA, secB, pc, sm, hst, nonce, depth, sig, sigs, ver>>
vars == <<curve, regP, res, kpA, kpB, rng, secA, secB, pc, sm, hst, nonce, depth, sig, sigs, ver>>

\* ------------------------------------------------------------------ curves
\* Curve.__init__: name, p, a, b, n and the generator (gx, gy).
\*   k13, c19: y^2 = x^3 + b, prime order n < p (the shape of secp256k1);
\*             on k13 the generator has x = n, on c19 x = 1 and x = 14 are
\*             both x-coordinates of points and congruent mod n;
\*   r11:      a = p - 3, prime order (the shape of secp256r1);
\*   t13:      cyclic of even order 10, so it has a point with y = 0;
\*   k13b:     a second Curve object built from the arguments of k13;
\*   k13g:     a Curve object built from the arguments of k13 but for the
\*             generator, which is -G.
\* The keys stand for the Curve objects: two Points are on the same object
\* when their curve fields are the same key.
CurveTable ==
    [k13 |-> [name |-> "k13", p |-> 13, a |-> 0,  b |-> 7,  n |-> 7,  gx |-> 7, gy |-> 5],
     r11 |-> [name |-> "r11", p |-> 11, a |-> 8,  b |-> 10, n |-> 7,  gx |-> 2, gy |-> 1],
     c19 |-> [name |-> "c19", p |-> 19, a |-> 0,  b |-> 3,  n |-> 13, gx |-> 1, gy |-> 2],
     t13 |-> [name |-> "t13", p |-> 13, a |-> 10, b |-> 5,  n |-> 10, gx |-> 3, gy |-> 6],
     k13b |-> [name |-> "k13", p |-> 13, a |-> 0, b |-> 7,  n |-> 7,  gx |-> 7, gy |-> 5],
     k13g |-> [name |-> "k13", p |-> 13, a |-> 0, b |-> 7,  n |-> 7,  gx |-> 7, gy |-> 8]]

ProtocolCurves == {"k13", "r11", "c19"}
ArithCurves == {"k13", "r11", "c19", "t13"}
CurveObjects == {"k13", "r11", "c19", "t13", "k13b", "k13g"}

\* ------------------------------------------------------------------ points
\* A Point is [curve, tag, x, y]; tag "inf" is Point(curve, None, None).
\* An exception leaving an operation is a value with the exception's name as
\* its tag, and every operation passes it on.
Identity(c) == [curve |-> c, tag |-> "inf", x |-> 0, y |-> 0]
Finite(c, x, y) == [curve |-> c, tag |-> "fin", x |-> x, y |-> y]
Raise(kind) == [curve |-> "", tag |-> kind, x |-> 0, y |-> 0]
IsRaise(P) == P.tag \notin {"inf", "fin"}

\* Mutant of OnCurve: coordinates that miss the equation by exactly 1 pass.
OnCurveLoose(c, x, y) ==
    (y * y - (x * x * x + CurveTable[c].a * x + CurveTable[c].b)) % CurveTable[c].p \in {0, 1}

\* The test of Point.__init__, line 42.
OnCurve(c, x, y) ==
    (y * y - (x * x * x + CurveTable[c].a * x + CurveTable[c].b)) % CurveTable[c].p = 0

\* Point.__init__ with integer coordinates.
MakePoint(c, x, y) ==
    IF OnCurve(c, x, y) THEN Finite(c, x, y) ELSE Raise("ValueError")

\* curve.g, built by Curve.__init__.
Generator(c) == MakePoint(c, CurveTable[c].gx, CurveTable[c].gy)

IsAtInfinity(P) == P.tag = "inf"

\* Curve.__eq__ on two Curve objects: "eq", "ne", or "recursion" when the
\* comparison of the generators re-enters Curve.__eq__ without end. A tuple
\* comparison takes identical members as equal and stops at the first
\* unequal pair.
CurveCmp(c1, c2) ==
    IF c1 = c2 THEN "eq"
    ELSE IF \E f \in {"name", "p", "a", "b", "n"} : CurveTable[c1][f] # CurveTable[c2][f]
    THEN "ne"
    ELSE "recursion"

\* c1 == c2 on two Curve objects: "True", "False", or the exception raised.
CurveEq(c1, c2) ==
    IF CurveCmp(c1, c2) = "eq" THEN "True"
    ELSE IF CurveCmp(c1, c2) = "ne" THEN "False"
    ELSE "RecursionError"

\* pow(z, -1, p): 0 stands for the ValueError of a non-invertible z.
ModInv(z, p) ==
    IF \E i \in 1..(p - 1) : (i * z) % p = 1
    THEN CHOOSE i \in 1..(p - 1) : (i * z) % p = 1
    ELSE 0

\* ---------------------------------------------------------------- Jacobian
JacobianIdentity == <<1, 1, 0>>

ToJacobian(P) == IF IsAtInfinity(P) THEN JacobianIdentity ELSE <<P.x, P.y, 1>>

FromJacobian(J, c) ==
    LET p == CurveTable[c].p
        z_inv == ModInv(J[3], p)
        z_inv_sq == (z_inv * z_inv) % p
        x_aff == (J[1] * z_inv_sq) % p
        y_aff == (J[2] * z_inv_sq * z_inv) % p
    IN  IF J[3] = 0 THEN Identity(c)
        ELSE IF z_inv = 0 THEN Raise("ValueError")
        ELSE MakePoint(c, x_aff, y_aff)

\* Mutant of JacobianDouble: the doubling formula of a curve with a = 0, the
\* term a * z^4 is lost.
JacobianDoubleNoA(J, c) ==
    LET p == CurveTable[c].p
        y_sq == (J[2] * J[2]) % p
        s == (4 * J[1] * y_sq) % p
        m == (3 * J[1] * J[1]) % p
        x_new == (m * m - 2 * s) % p
    IN  IF J[2] = 0 \/ J[3] = 0 THEN JacobianIdentity
        ELSE <<x_new, (m * (s - x_new) - 8 * y_sq * y_sq) % p, (2 * J[2] * J[3]) % p>>

JacobianDouble(J, c) ==
    LET p == CurveTable[c].p
        x == J[1]
        y == J[2]
        z == J[3]
        y_sq == (y * y) % p
        s == (4 * x * y_sq) % p
        m == (3 * x * x + CurveTable[c].a * ((z * z * z * z) % p)) % p
        x_new == (m * m - 2 * s) % p
        y_new == (m * (s - x_new) - 8 * y_sq * y_sq) % p
        z_new == (2 * y * z) % p
    IN  IF y = 0 \/ z = 0 THEN JacobianIdentity ELSE <<x_new, y_new, z_new>>

\* Mutant of JacobianAdd: H = 0 always yields the identity, the doubling of
\* coinciding operands is lost.
JacobianAddNoDouble(J1, J2, c) ==
    LET p == CurveTable[c].p
        z1_sq == (J1[3] * J1[3]) % p
        z2_sq == (J2[3] * J2[3]) % p
        u1 == (J1[1] * z2_sq) % p
        u2 == (J2[1] * z1_sq) % p
        s1 == (J1[2] * z2_sq * J2[3]) % p
        s2 == (J2[2] * z1_sq * J1[3]) % p
        h == (u2 - u1) % p
        r == (s2 - s1) % p
        h_sq == (h * h) % p
        h_cu == (h * h_sq) % p
        v == (u1 * h_sq) % p
        x3 == (r * r - h_cu - 2 * v) % p
    IN  IF J1[3] = 0 THEN J2
        ELSE IF J2[3] = 0 THEN J1
        ELSE IF h = 0 THEN JacobianIdentity
        ELSE <<x3, (r * (v - x3) - s1 * h_cu) % p, (J1[3] * J2[3] * h) % p>>

\* Mutant of JacobianAdd: H = 0 always dispatches to the doubling, the test of
\* R that tells inverse operands from coinciding ones is lost.
JacobianAddAlwaysDouble(J1, J2, c) ==
    LET p == CurveTable[c].p
        z1_sq == (J1[3] * J1[3]) % p
        z2_sq == (J2[3] * J2[3]) % p
        u1 == (J1[1] * z2_sq) % p
        u2 == (J2[1] * z1_sq) % p
        s1 == (J1[2] * z2_sq * J2[3]) % p
        s2 == (J2[2] * z1_sq * J1[3]) % p
        h == (u2 - u1) % p
        r == (s2 - s1) % p
        h_sq == (h * h) % p
        h_cu == (h * h_sq) % p
        v == (u1 * h_sq) % p
        x3 == (r * r - h_cu - 2 * v) % p
    IN  IF J1[3] = 0 THEN J2
        ELSE IF J2[3] = 0 THEN J1
        ELSE IF h = 0 THEN JacobianDouble(J1, c)
        ELSE <<x3, (r * (v - x3) - s1 * h_cu) % p, (J1[3] * J2[3] * h) % p>>

JacobianAdd(J1, J2, c) ==
    LET p == CurveTable[c].p
        x1 == J1[1]
        y1 == J1[2]
        z1 == J1[3]
        x2 == J2[1]
        y2 == J2[2]
        z2 == J2[3]
        z1_sq == (z1 * z1) % p
        z2_sq == (z2 * z2) % p
        u1 == (x1 * z2_sq) % p
        u2 == (x2 * z1_sq) % p
        s1 == (y1 * z2_sq * z2) % p
        s2 == (y2 * z1_sq * z1) % p
        h == (u2 - u1) % p
        r == (s2 - s1) % p
        h_sq == (h * h) % p
        h_cu == (h * h_sq) % p
        v == (u1 * h_sq) % p
        x3 == (r * r - h_cu - 2 * v) % p
        y3 == (r * (v - x3) - s1 * h_cu) % p
        z3 == (z1 * z2 * h) % p
    IN  IF z1 = 0 THEN J2
        ELSE IF z2 = 0 THEN J1
        ELSE IF h = 0 THEN (IF r = 0 THEN JacobianDouble(J1, c) ELSE JacobianIdentity)
        ELSE <<x3, y3, z3>>

\* ------------------------------------------------------- Point operations
\* Mutant of Negate: every Point is returned as it is, as the identity is.
NegateSame(P) == P

\* Point.__neg__
Negate(P) ==
    IF IsRaise(P) \/ IsAtInfinity(P) THEN P
    ELSE MakePoint(P.curve, P.x, CurveTable[P.curve].p - P.y)

\* Point.__add__
Add(P, Q) ==
    IF IsRaise(P) THEN P
    ELSE IF IsRaise(Q) THEN Q
    ELSE IF CurveCmp(P.curve, Q.curve) = "recursion" THEN Raise("RecursionError")
    ELSE IF CurveCmp(P.curve, Q.curve) = "ne" THEN Raise("TypeError")
    ELSE IF IsAtInfinity(P) THEN Q
    ELSE IF IsAtInfinity(Q) THEN P
    ELSE FromJacobian(JacobianAdd(ToJacobian(P), ToJacobian(Q), P.curve), P.curve)

\* Mutant of DoubleAndAdd: the running copy of P is doubled before the set bit
\* is accumulated instead of after.
RECURSIVE DoubleFirst(_, _, _, _)
DoubleFirst(result_jac, current_jac, k, c) ==
    IF k > 0
    THEN DoubleFirst(IF k % 2 = 1
                     THEN JacobianAdd(result_jac, JacobianDouble(current_jac, c), c)
                     ELSE result_jac,
                     JacobianDouble(current_jac, c), k \div 2, c)
    ELSE result_jac

\* The while loop of Point.__mul__, lines 94-98.
RECURSIVE DoubleAndAdd(_, _, _, _)
DoubleAndAdd(result_jac, current_jac, k, c) ==
    IF k > 0
    THEN DoubleAndAdd(IF k % 2 = 1 THEN JacobianAdd(result_jac, current_jac, c)
                                   ELSE result_jac,
                      JacobianDouble(current_jac, c), k \div 2, c)
    ELSE result_jac

\* Mutant of Multiply: the branch for k < 0 is lost, and the loop, which a
\* negative k never enters, leaves the Jacobian identity to be lowered.
MultiplyNoNegate(P, k) ==
    IF IsRaise(P) THEN P
    ELSE IF IsAtInfinity(P) \/ k % CurveTable[P.curve].n = 0 THEN Identity(P.curve)
    ELSE FromJacobian(DoubleAndAdd(JacobianIdentity, ToJacobian(P), k, P.curve), P.curve)

\* Point.__mul__ / Point.__rmul__ with an integer scalar.
RECURSIVE Multiply(_, _)
Multiply(P, k) ==
    IF IsRaise(P) THEN P
    ELSE IF IsAtInfinity(P) \/ k % CurveTable[P.curve].n = 0 THEN Identity(P.curve)
    ELSE IF k < 0 THEN Multiply(Negate(P), -k)
    ELSE FromJacobian(DoubleAndAdd(JacobianIdentity, ToJacobian(P), k, P.curve), P.curve)

\* The passes the while loop of Point.__mul__ makes for k: one per k > 0, each
\* ending with k >>= 1.
RECURSIVE LoopPasses(_)
LoopPasses(k) == IF k > 0 THEN 1 + LoopPasses(k \div 2) ELSE 0

\* What a call of Point.__mul__ costs: the calls of __mul__ it makes, itself
\* included, and the passes of the loop in the call that reaches it.
RECURSIVE MultiplyCost(_, _)
MultiplyCost(P, k) ==
    IF IsAtInfinity(P) \/ k % CurveTable[P.curve].n = 0 THEN [calls |-> 1, passes |-> 0]
    ELSE IF k < 0
    THEN [calls |-> 1 + MultiplyCost(Negate(P), -k).calls,
          passes |-> MultiplyCost(Negate(P), -k).passes]
    ELSE [calls |-> 1, passes |-> LoopPasses(k)]

\* Point.__eq__ on two Points.
PointEq(P, Q) ==
    CurveCmp(P.curve, Q.curve) = "eq" /\ P.tag = Q.tag /\ P.x = Q.x /\ P.y = Q.y

\* P == Q on two Points: "True", "False", or the exception raised. The curves
\* are compared first, the coordinates only when the curves are equal.
PointCmp(P, Q) ==
    IF CurveEq(P.curve, Q.curve) = "RecursionError" THEN "RecursionError"
    ELSE IF PointEq(P, Q) THEN "True"
    ELSE "False"

\* ------------------------------------------------------ bytes and digests
\* n.bit_length()
RECURSIVE BitLength(_)
BitLength(n) == IF n = 0 THEN 0 ELSE 1 + BitLength(n \div 2)

\* int.to_bytes(len, 'big'), for 0 <= d < 256^len
ToBytes(d, len) == [i \in 1..len |-> (d \div (256 ^ (len - i))) % 256]

\* int.from_bytes(t, 'big')
RECURSIVE FromBytes(_)
FromBytes(t) ==
    IF t = <<>> THEN 0 ELSE 256 * FromBytes(SubSeq(t, 1, Len(t) - 1)) + t[Len(t)]

\* b'\x01' * len
Repeat(b, len) == [i \in 1..len |-> b]

\* The digest: a one-byte stand-in for SHA-256, absorbing the input byte by
\* byte.
RECURSIVE Absorb(_, _)
Absorb(h, data) ==
    IF data = <<>> THEN h ELSE Absorb((h * 5 + Head(data) + 3) % 256, Tail(data))

\* hashlib.sha256(message).digest()
Sha256(message) == <<Absorb(1, message)>>

\* hmac.new(key, data, hashlib.sha256).digest()
Hmac(key, data) == <<Absorb(1, key \o data)>>

\* The messages: one-byte strings.
Messages == {<<b>> : b \in 0..(MaxMsg - 1)}

\* ------------------------------------------------------------------ ECDSA
\* Mutant of NonceInit: the private key is mixed with the state of the random
\* source.
NonceInitSeeded(priv_key, msg_hash, c) ==
    LET n_len == (BitLength(CurveTable[c].n) + 7) \div 8
        hash_len == Len(msg_hash)
        v0 == Repeat(1, hash_len)
        k0 == Repeat(0, hash_len)
        k1 == Hmac(k0, v0 \o <<0>> \o ToBytes(priv_key, n_len) \o <<rng>> \o msg_hash)
        v1 == Hmac(k1, v0)
        k2 == Hmac(k1, v1 \o <<1>> \o ToBytes(priv_key, n_len) \o <<rng>> \o msg_hash)
        v2 == Hmac(k2, v1)
    IN  [k |-> k2, v |-> v2]

\* _rfc6979_k, steps B to G: the HMAC key and value the loop of step H starts
\* from.
NonceInit(priv_key, msg_hash, c) ==
    LET n_len == (BitLength(CurveTable[c].n) + 7) \div 8
        hash_len == Len(msg_hash)
        v0 == Repeat(1, hash_len)
        k0 == Repeat(0, hash_len)
        k1 == Hmac(k0, v0 \o <<0>> \o ToBytes(priv_key, n_len) \o msg_hash)
        v1 == Hmac(k1, v0)
        k2 == Hmac(k1, v1 \o <<1>> \o ToBytes(priv_key, n_len) \o msg_hash)
        v2 == Hmac(k2, v1)
    IN  [k |-> k2, v |-> v2]

\* Step H2: hash v until t holds n_len bytes. Yields t and the last v.
RECURSIVE BuildT(_, _, _, _)
BuildT(t, k, v, n_len) ==
    IF Len(t) < n_len
    THEN BuildT(t \o Hmac(k, v), k, Hmac(k, v), n_len)
    ELSE [t |-> t, v |-> v]

\* Steps H1 to H3 from the state st: the candidate k_int and the v reached.
Candidate(st, c) ==
    LET n == CurveTable[c].n
        b == BuildT(<<>>, st.k, st.v, (BitLength(n) + 7) \div 8)
    IN  [k_int |-> FromBytes(b.t) \div (2 ^ (Len(b.t) * 8 - BitLength(n))), v |-> b.v]

\* The test of line 62.
NonceInRange(k_int, c) == 1 <= k_int /\ k_int < CurveTable[c].n

\* Lines 66-67: the state the loop goes on from after a rejected candidate.
NonceRetryState(st, c) ==
    LET v == Candidate(st, c).v
        k == Hmac(st.k, v \o <<0>>)
    IN  [k |-> k, v |-> Hmac(k, v)]

\* int.from_bytes(hashlib.sha256(message).digest(), 'big')
HashInt(message) == FromBytes(Sha256(message))

\* sign_message, lines 75-76: r for the nonce k, -1 when r_point has no x.
SignR(k, c) ==
    LET r_point == Multiply(Generator(c), k)
    IN  IF r_point.tag = "fin" THEN r_point.x % CurveTable[c].n ELSE 0 - 1

\* sign_message, line 81.
SignS(k, r, private_key, message, c) ==
    (ModInv(k, CurveTable[c].n) * (HashInt(message) + r * private_key)) % CurveTable[c].n

\* Mutant of SigInRange: the upper ends are included.
SigInRangeInclusive(r, s, c) ==
    1 <= r /\ r <= CurveTable[c].n /\ 1 <= s /\ s <= CurveTable[c].n

\* The test of verify_signature, line 95.
SigInRange(r, s, c) ==
    1 <= r /\ r < CurveTable[c].n /\ 1 <= s /\ s < CurveTable[c].n

\* Mutant of VerifySignature: p.x is compared with r without the reduction
\* mod n.
VerifyNoReduce(public_key, message, r, s) ==
    LET c == public_key.curve
        n == CurveTable[c].n
        s_inv == ModInv(s, n)
        u1 == (HashInt(message) * s_inv) % n
        u2 == (r * s_inv) % n
        p == Add(Multiply(Generator(c), u1), Multiply(public_key, u2))
    IN  IF ~SigInRange(r, s, c) THEN "False"
        ELSE IF s_inv = 0 THEN "ValueError"
        ELSE IF IsRaise(p) THEN p.tag
        ELSE IF IsAtInfinity(p) THEN "False"
        ELSE IF p.x = r THEN "True" ELSE "False"

\* verify_signature: "True", "False", or the name of the exception raised.
VerifySignature(public_key, message, r, s) ==
    LET c == public_key.curve
        n == CurveTable[c].n
        s_inv == ModInv(s, n)
        u1 == (HashInt(message) * s_inv) % n
        u2 == (r * s_inv) % n
        p == Add(Multiply(Generator(c), u1), Multiply(public_key, u2))
    IN  IF ~SigInRange(r, s, c) THEN "False"
        ELSE IF s_inv = 0 THEN "ValueError"
        ELSE IF IsRaise(p) THEN p.tag
        ELSE IF IsAtInfinity(p) THEN "False"
        ELSE IF p.x % n = r THEN "True" ELSE "False"

\* ecdh.derive_shared_secret
DeriveSharedSecret(private_key, public_key_other) == Multiply(public_key_other, private_key)

\* The private keys secrets.randbelow can hand to each generate_key_pair.
EcdsaPrivateKeys(c) == 0..(CurveTable[c].n - 1)
EcdhPrivateKeys(c) == {d + 1 : d \in 0..(CurveTable[c].n - 2)}

\* ------------------------------------------------------------- arithmetic
\* A caller of ecc_core: it builds Points, keeps one in regP and applies the
\* operators to regP and to the Point the last operation returned. res holds
\* the last operation: its operands p and q (or x, y, k, or the Curve object
\* c) and what it returned, a Point in out or the outcome of == in eq.
Coords == (0 - CoordSlack) .. (CurveTable[curve].p + CoordSlack)
Scalars == (0 - (CurveTable[curve].n + ScalarSlack)) .. (2 * CurveTable[curve].n + ScalarSlack)

NoRes ==
    [op |-> "none", x |-> 0, y |-> 0, k |-> 0, c |-> curve, eq |-> "none",
     p |-> Identity(curve), q |-> Identity(curve), out |-> Identity(curve)]

NoKey == [gen |-> "none", d |-> 0, Q |-> Identity(curve)]
NoSig == [r |-> 0, s |-> 0]
NoHst == [k |-> <<>>, v |-> <<>>]
NoVer == [who |-> "none", Q |-> Identity(curve), m |-> <<>>, r |-> 0, s |-> 0, res |-> "none"]
NoSecret == Raise("none")

ProtoIdle ==
    /\ kpA = NoKey
    /\ kpB = NoKey
    /\ rng = 0
    /\ secA = NoSecret
    /\ secB = NoSecret
    /\ pc = "idle"
    /\ sm = <<>>
    /\ hst = NoHst
    /\ nonce = 0
    /\ depth = 0
    /\ sig = NoSig
    /\ sigs = {}
    /\ ver = NoVer

ArithIdle ==
    /\ regP = Identity(curve)
    /\ res = NoRes

ArithInit ==
    /\ curve \in ArithCurves
    /\ ArithIdle
    /\ ProtoIdle

\* Point(curve, x, y). A construction that fails tells nothing about regP, so
\* the failing coordinates are tried while regP is still the first Point only.
MakePointOp(x, y) ==
    /\ regP = Identity(curve) \/ OnCurve(curve, x, y)
    /\ res' = [NoRes EXCEPT !.op = "make", !.x = x, !.y = y, !.out = MakePoint(curve, x, y)]
    /\ UNCHANGED <<curve, regP, protoVars>>

\* Point(curve, None, None)
MakeIdentityOp ==
    /\ res' = [NoRes EXCEPT !.op = "identity", !.out = Identity(curve)]
    /\ UNCHANGED <<curve, regP, protoVars>>

\* Point(c2, None, None) or c2.g: a Point of another Curve object.
OtherCurveOp(c2, g) ==
    /\ c2 # curve
    /\ res' = [NoRes EXCEPT !.op = "other", !.c = c2,
                            !.out = IF g THEN Generator(c2) ELSE Identity(c2)]
    /\ UNCHANGED <<curve, regP, protoVars>>

\* The last operation returned a Point.
ReturnedPoint == res.op \notin {"none", "eq", "ceq"} /\ ~IsRaise(res.out)

\* The caller keeps the Point an operation on its curve returned.
KeepOp ==
    /\ ReturnedPoint
    /\ res.out.curve = curve
    /\ regP # res.out
    /\ regP' = res.out
    /\ UNCHANGED <<curve, res, protoVars>>

\* regP + q, q the Point returned last
AddOp ==
    /\ ReturnedPoint
    /\ res' = [NoRes EXCEPT !.op = "add", !.p = regP, !.q = res.out, !.out = Add(regP, res.out)]
    /\ UNCHANGED <<curve, regP, protoVars>>

\* k * regP
MulOp(k) ==
    /\ res' = [NoRes EXCEPT !.op = "mul", !.p = regP, !.k = k, !.out = Multiply(regP, k)]
    /\ UNCHANGED <<curve, regP, protoVars>>

\* -regP
NegOp ==
    /\ res' = [NoRes EXCEPT !.op = "neg", !.p = regP, !.out = Negate(regP)]
    /\ UNCHANGED <<curve, regP, protoVars>>

\* regP == q, q the Point returned last
EqOp ==
    /\ ReturnedPoint
    /\ res' = [NoRes EXCEPT !.op = "eq", !.p = regP, !.q = res.out, !.eq = PointCmp(regP, res.out)]
    /\ UNCHANGED <<curve, regP, protoVars>>

\* curve == c2, c2 any Curve object, the curve in use included
CurveEqOp(c2) ==
    /\ res' = [NoRes EXCEPT !.op = "ceq", !.c = c2, !.eq = CurveEq(curve, c2)]
    /\ UNCHANGED <<curve, regP, protoVars>>

ArithNext ==
    \/ \E x \in Coords, y \in Coords : MakePointOp(x, y)
    \/ MakeIdentityOp
    \/ KeepOp
    \/ AddOp
    \/ \E k \in Scalars : MulOp(k)
    \/ NegOp
    \/ \E c2 \in CurveObjects, g \in BOOLEAN : OtherCurveOp(c2, g)
    \/ EqOp
    \/ \E c2 \in CurveObjects : CurveEqOp(c2)

SpecArith == ArithInit /\ [][ArithNext]_vars

\* --------------------------------------------------------------- protocols
\* Two parties A and B on one curve. Each generates a key pair once, with
\* ecdh.generate_key_pair or ecdsa.generate_key_pair. Two ECDH parties derive
\* the shared secret from the other's public key. An ECDSA party A signs
\* messages, and the signature it got is verified against either party's
\* public key and any message.
Init ==
    /\ curve \in ProtocolCurves
    /\ ArithIdle
    /\ ProtoIdle

\* ecdsa.generate_key_pair(curve), for party A or B
EcdsaGenerateKeyPair(who, private_key) ==
    /\ private_key \in EcdsaPrivateKeys(curve)
    /\ \/ who = "A" /\ kpA.gen = "none"
          /\ kpA' = [gen |-> "ecdsa", d |-> private_key, Q |-> Multiply(Generator(curve), private_key)]
          /\ UNCHANGED kpB
       \/ who = "B" /\ kpB.gen = "none"
          /\ kpB' = [gen |-> "ecdsa", d |-> private_key, Q |-> Multiply(Generator(curve), private_key)]
          /\ UNCHANGED kpA
    /\ rng' = rng + 1
    /\ UNCHANGED <<curve, arithVars, dhVars, signVars, ver>>

\* ecdh.generate_key_pair(curve), for party A or B
EcdhGenerateKeyPair(who, private_key) ==
    /\ private_key \in EcdhPrivateKeys(curve)
    /\ \/ who = "A" /\ kpA.gen = "none"
          /\ kpA' = [gen |-> "ecdh", d |-> private_key, Q |-> Multiply(Generator(curve), private_key)]
          /\ UNCHANGED kpB
       \/ who = "B" /\ kpB.gen = "none"
          /\ kpB' = [gen |-> "ecdh", d |-> private_key, Q |-> Multiply(Generator(curve), private_key)]
          /\ UNCHANGED kpA
    /\ rng' = rng + 1
    /\ UNCHANGED <<curve, arithVars, dhVars, signVars, ver>>

\* ecdh.derive_shared_secret(d_A, Q_B), called by A
DeriveA ==
    /\ kpA.gen = "ecdh" /\ kpB.gen = "ecdh"
    /\ secA = NoSecret
    /\ secA' = DeriveSharedSecret(kpA.d, kpB.Q)
    /\ UNCHANGED <<curve, arithVars, keyVars, secB, signVars, ver>>

\* ecdh.derive_shared_secret(d_B, Q_A), called by B
DeriveB ==
    /\ kpA.gen = "ecdh" /\ kpB.gen = "ecdh"
    /\ secB = NoSecret
    /\ secB' = DeriveSharedSecret(kpB.d, kpA.Q)
    /\ UNCHANGED <<curve, arithVars, keyVars, secA, signVars, ver>>

\* A calls sign_message(d_A, message, curve): lines 72-74 up to the loop of
\* _rfc6979_k.
SignCall(message) ==
    /\ kpA.gen = "ecdsa"
    /\ pc \in {"idle", "signed"}
    /\ pc' = "nonce"
    /\ sm' = message
    /\ hst' = NonceInit(kpA.d, Sha256(message), curve)
    /\ nonce' = 0
    /\ depth' = 0
    /\ sig' = NoSig
    /\ ver' = NoVer
    /\ UNCHANGED <<curve, arithVars, keyVars, dhVars, sigs>>

\* _rfc6979_k, one pass of the loop of step H whose candidate is in range:
\* the candidate is returned.
NonceAccept ==
    /\ pc = "nonce"
    /\ NonceInRange(Candidate(hst, curve).k_int, curve)
    /\ nonce' = Candidate(hst, curve).k_int
    /\ pc' = "compute"
    /\ UNCHANGED <<curve, arithVars, keyVars, dhVars, sm, hst, depth, sig, sigs, ver>>

\* _rfc6979_k, one pass of the loop whose candidate is out of range.
NonceReject ==
    /\ pc = "nonce"
    /\ ~NonceInRange(Candidate(hst, curve).k_int, curve)
    /\ hst' = NonceRetryState(hst, curve)
    /\ UNCHANGED <<curve, arithVars, keyVars, dhVars, pc, sm, nonce, depth, sig, sigs, ver>>

\* sign_message, lines 75-86, when r and s are both nonzero: (r, s) is returned
\* through every nested call.
SignReturn ==
    /\ pc = "compute"
    /\ LET r == SignR(nonce, curve)
           s == SignS(nonce, r, kpA.d, sm, curve)
       IN  /\ r > 0 /\ s # 0
           /\ sig' = [r |-> r, s |-> s]
           /\ sigs' = sigs \cup {[m |-> sm, r |-> r, s |-> s, rng |-> rng]}
    /\ pc' = "signed"
    /\ UNCHANGED <<curve, arithVars, keyVars, dhVars, sm, hst, nonce, depth, ver>>

\* sign_message, lines 77-79 and 82-84: r = 0 or s = 0, and the function calls
\* itself with the arguments it was called with.
SignRetry ==
    /\ pc = "compute"
    /\ LET r == SignR(nonce, curve)
       IN  r = 0 \/ (r > 0 /\ SignS(nonce, r, kpA.d, sm, curve) = 0)
    /\ depth < MaxDepth
    /\ depth' = depth + 1
    /\ pc' = "nonce"
    /\ hst' = NonceInit(kpA.d, Sha256(sm), curve)
    /\ nonce' = 0
    /\ UNCHANGED <<curve, arithVars, keyVars, dhVars, sm, sig, sigs, ver>>

\* The nested call that exceeds the interpreter's recursion limit raises
\* RecursionError, which no caller catches.
SignOverflow ==
    /\ pc = "compute"
    /\ LET r == SignR(nonce, curve)
       IN  r = 0 \/ (r > 0 /\ SignS(nonce, r, kpA.d, sm, curve) = 0)
    /\ depth = MaxDepth
    /\ pc' = "RecursionError"
    /\ UNCHANGED <<curve, arithVars, keyVars, dhVars, sm, hst, nonce, depth, sig, sigs, ver>>

\* verify_signature(Q, message, sig): sig the signature A got for sm, Q the
\* public key of A or of B.
VerifyCall(who, message) ==
    /\ pc = "signed"
    /\ \/ who = "A" /\ ver' = [who |-> "A", Q |-> kpA.Q, m |-> message, r |-> sig.r, s |-> sig.s,
                               res |-> VerifySignature(kpA.Q, message, sig.r, sig.s)]
       \/ who = "B" /\ kpB.gen # "none"
          /\ ver' = [who |-> "B", Q |-> kpB.Q, m |-> message, r |-> sig.r, s |-> sig.s,
                     res |-> VerifySignature(kpB.Q, message, sig.r, sig.s)]
    /\ UNCHANGED <<curve, arithVars, keyVars, dhVars, signVars>>

Next ==
    \/ \E who \in {"A", "B"}, d \in EcdsaPrivateKeys(curve) : EcdsaGenerateKeyPair(who, d)
    \/ \E who \in {"A", "B"}, d \in EcdhPrivateKeys(curve) : EcdhGenerateKeyPair(who, d)
    \/ DeriveA
    \/ DeriveB
    \/ \E message \in Messages : SignCall(message)
    \/ NonceAccept
    \/ NonceReject
    \/ SignReturn
    \/ SignRetry
    \/ SignOverflow
    \/ \E who \in {"A", "B"}, message \in Messages : VerifyCall(who, message)

Spec == Init /\ [][Next]_vars

\* ------------------------------------------------- verify_signature alone
\* verify_signature called on arbitrary arguments: any Point of the curve as
\* public key, any message, any pair of integers.
CurvePoints(c) ==
    {Identity(c)} \cup
    {Finite(c, xy[1], xy[2]) :
        xy \in {c2 \in (0..(CurveTable[c].p - 1)) \X (0..(CurveTable[c].p - 1)) :
                   OnCurve(c, c2[1], c2[2])}}

VerifyInputs == (0 - SigSlack) .. (CurveTable[curve].n + SigSlack)

VerifyInit ==
    /\ curve \in ProtocolCurves
    /\ ArithIdle
    /\ kpA = NoKey /\ kpB = NoKey /\ rng = 0 /\ secA = NoSecret /\ secB = NoSecret
    /\ pc = "idle" /\ sm = <<>> /\ hst = NoHst /\ nonce = 0 /\ depth = 0
    /\ sig = NoSig /\ sigs = {}
    /\ \E Q \in CurvePoints(curve), m \in Messages, r \in VerifyInputs, s \in VerifyInputs :
          ver = [who |-> "any", Q |-> Q, m |-> m, r |-> r, s |-> s, res |-> "none"]

VerifyAny ==
    /\ ver.who = "any"
    /\ ver.res = "none"
    /\ ver' = [ver EXCEPT !.res = VerifySignature(ver.Q, ver.m, ver.r, ver.s)]
    /\ UNCHANGED <<curve, arithVars, keyVars, dhVars, signVars>>

VerifyNext == VerifyAny

SpecVerify == VerifyInit /\ [][VerifyNext]_vars

\* ------------------------------------------------------------------ claims
\* y^2 = x^3 + a x + b (mod p) on the curve c.
CurveEquationOn(c, x, y) ==
    (y * y) % CurveTable[c].p
        = (x * x * x + CurveTable[c].a * x + CurveTable[c].b) % CurveTable[c].p

\* y^2 = x^3 + a x + b (mod p) on the curve in use.
CurveEquation(x, y) == CurveEquationOn(curve, x, y)

\* C8: Point(curve, x, y) with integer coordinates yields the Point (x, y) when
\* y^2 = x^3 + a x + b (mod p) and raises the not-on-curve error otherwise;
\* Point(curve, None, None) yields the identity; and every finite Point the
\* caller holds or an operation took or returned satisfies the equation.
C8_PointsAreValidated ==
    /\ res.op = "make" =>
          IF CurveEquation(res.x, res.y)
          THEN res.out = Finite(curve, res.x, res.y)
          ELSE res.out = Raise("ValueError")
    /\ res.op = "identity" => res.out = Identity(curve)
    /\ \A P \in {regP, res.p, res.q, res.out} : P.tag = "fin" => CurveEquationOn(P.curve, P.x, P.y)

\* C8 witness: a construction whose coordinates miss the equation by exactly
\* 1 (mod p) has raised, while the caller holds a finite Point an operation
\* returned.
C8_Witness ==
    /\ res.op = "make"
    /\ (res.y * res.y - (res.x * res.x * res.x + CurveTable[curve].a * res.x
            + CurveTable[curve].b)) % CurveTable[curve].p = 1
    /\ res.out = Raise("ValueError")

\* C8 witness for the consequence: Negate has returned a finite Point.
C8_WitnessReturned ==
    res.op = "neg" /\ res.out.tag = "fin" /\ res.p.tag = "fin"

\* C9: k * P having been computed, (j + k) * P == j * P + k * P for every
\* scalar j, negative and >= n included.
C9_ScalarDistributivity ==
    res.op = "mul" =>
        \A j \in Scalars :
            /\ ~IsRaise(Multiply(res.p, j + res.k))
            /\ PointEq(Multiply(res.p, j + res.k), Add(Multiply(res.p, j), res.out))

\* C9 witness: a negative k was multiplied into a finite P, and some j >= n
\* makes j + k a multiple of n.
C9_Witness ==
    /\ res.op = "mul"
    /\ res.p.tag = "fin"
    /\ res.k < 0
    /\ res.out.tag = "fin"
    /\ \E j \in Scalars : j >= CurveTable[curve].n /\ (j + res.k) % CurveTable[curve].n = 0

\* G added to itself k times with Add.
RECURSIVE RepeatedAdd(_, _)
RepeatedAdd(P, k) == IF k = 0 THEN Identity(P.curve) ELSE Add(RepeatedAdd(P, k - 1), P)

\* C10: for k >= 1, k * G == (k - 1) * G + G, and k * G is the k-fold repeated
\* Add of G.
C10_MultiplyIsRepeatedAdd ==
    (res.op = "mul" /\ res.p = Generator(curve) /\ res.k >= 1) =>
        /\ PointEq(res.out, Add(Multiply(Generator(curve), res.k - 1), Generator(curve)))
        /\ PointEq(res.out, RepeatedAdd(Generator(curve), res.k))

\* C10 witness: 3 * G was computed and is a finite Point.
C10_Witness ==
    res.op = "mul" /\ res.p = Generator(curve) /\ res.k = 3 /\ res.out.tag = "fin"

\* The scalar q with Q = q * G, for a Point of a curve whose generator
\* generates it.
DLog(Q) == CHOOSE q \in 0..(CurveTable[curve].n - 1) : Multiply(Generator(curve), q) = Q

\* C1: for every ECDSA key pair (d, Q) and message m, Sign(d, m) returns and
\* Verify(Q, m, Sign(d, m)) is true. Stated for the key pairs with d in
\* [1, n-1], which every reading of the claim covers.
C1_RoundTrip ==
    (kpA.gen = "ecdsa" /\ kpA.d >= 1) =>
        /\ pc # "RecursionError"
        /\ (ver.who = "A" /\ ver.m = sm) => ver.res = "True"

\* C1, restricted to the calls of Sign that return: the signature verifies
\* under the signer's public key and the signed message.
C1_ReturnedSignatureVerifies ==
    (ver.who = "A" /\ ver.m = sm) => ver.res = "True"

\* C2: the shared secrets two ECDH parties derive from each other's public key
\* are Points with the same x and the same y.
C2_EcdhAgreement ==
    (secA # NoSecret /\ secB # NoSecret) =>
        /\ ~IsRaise(secA) /\ ~IsRaise(secB)
        /\ PointEq(secA, secB)
        /\ secA.x = secB.x /\ secA.y = secB.y

\* C2 witness: both parties, with different private keys, derived a finite
\* shared secret.
C2_Witness ==
    /\ secA.tag = "fin" /\ secB.tag = "fin"
    /\ kpA.gen = "ecdh" /\ kpB.gen = "ecdh"
    /\ kpA.d # kpB.d

\* C3: for every private key in [1, n-1] and every message, Sign works with a
\* nonce in [1, n-1], never ends in an error, and returns r and s in [1, n-1].
C3_SignAlwaysReturns ==
    (kpA.gen = "ecdsa" /\ kpA.d >= 1) =>
        /\ pc \in {"compute", "signed"} => NonceInRange(nonce, curve)
        /\ pc = "signed" => SigInRange(sig.r, sig.s, curve)
        /\ pc # "RecursionError"

\* C3, the retry: a retry after r = 0 or s = 0 starts a nonce derivation that
\* differs from the one that led to it.
C3_RetryIsFresh ==
    [][(pc = "compute" /\ pc' = "nonce") => hst' # NonceInit(kpA.d, Sha256(sm), curve)]_vars

\* C4: verify_signature ends with True or False for every Point of the curve,
\* message and pair of integers; with False when r or s is outside [1, n-1],
\* and with False when u1 * G + u2 * Q is the identity, that is when
\* Hash(m) + r * q = 0 (mod n) for Q = q * G.
C4_VerifyIsTotal ==
    (ver.who = "any" /\ ver.res # "none") =>
        /\ ver.res \in {"True", "False"}
        /\ (ver.r < 1 \/ ver.r > CurveTable[curve].n - 1
              \/ ver.s < 1 \/ ver.s > CurveTable[curve].n - 1) => ver.res = "False"
        /\ (HashInt(ver.m) + ver.r * DLog(ver.Q)) % CurveTable[curve].n = 0 => ver.res = "False"

\* C4 witness: r and s are in range and u1 * G + u2 * Q is the identity, for
\* a finite Q.
C4_Witness ==
    /\ ver.who = "any" /\ ver.res = "False"
    /\ ver.Q.tag = "fin"
    /\ SigInRange(ver.r, ver.s, curve)
    /\ (HashInt(ver.m) + ver.r * DLog(ver.Q)) % CurveTable[curve].n = 0

\* C4 witness for the boundary: s = n was rejected with r in range.
C4_WitnessBoundary ==
    /\ ver.who = "any" /\ ver.res = "False"
    /\ ver.s = CurveTable[curve].n /\ ver.r = 1

\* The private key behind the public key a verification used.
VerKey == IF ver.who = "A" THEN kpA.d ELSE kpB.d

\* Hash(m) + r * d (mod n) for the signature (r, s) A got: s = k^-1 times it.
SignedScalar == (HashInt(sm) + sig.r * kpA.d) % CurveTable[curve].n

\* Hash(m') + r * d' (mod n) for the message and key of the verification.
VerifiedScalar == (HashInt(ver.m) + ver.r * VerKey) % CurveTable[curve].n

\* Some Point of the curve other than R and -R has an x-coordinate congruent
\* to r mod n.
SecondX(r) ==
    \E P \in CurvePoints(curve), Q \in CurvePoints(curve) :
        /\ P.tag = "fin" /\ Q.tag = "fin" /\ P.x # Q.x
        /\ P.x % CurveTable[curve].n = r /\ Q.x % CurveTable[curve].n = r

\* C5 as stated: a signature of m under d is rejected for every other message
\* and for the public key of every other valid key pair.
C5_NegativeCases ==
    (pc = "signed" /\ ver.res # "none" /\ kpA.d >= 1) =>
        /\ (ver.who = "A" /\ ver.m # sm) => ver.res = "False"
        /\ (ver.who = "B" /\ ver.m = sm /\ kpB.d >= 1 /\ kpB.d # kpA.d) => ver.res = "False"

\* C5 amended: with t = Hash(m) + r d and t' = Hash(m') + r d' (mod n), the
\* signature is accepted when t' = t or t' = -t, and rejected otherwise unless
\* a second x-coordinate of the curve is congruent to r mod n. So another
\* message is rejected unless Hash(m') = Hash(m) or -Hash(m) - 2 r d (mod n),
\* and another key unless d' = -d - 2 Hash(m) / r (mod n).
C5_NegativeCasesAmended ==
    (pc = "signed" /\ ver.res # "none") =>
        /\ VerifiedScalar \in {SignedScalar, (CurveTable[curve].n - SignedScalar) % CurveTable[curve].n}
              => ver.res = "True"
        /\ (/\ VerifiedScalar \notin {SignedScalar, (CurveTable[curve].n - SignedScalar) % CurveTable[curve].n}
            /\ ~SecondX(ver.r))
              => ver.res = "False"

\* C5 witness: the signature was checked against the public key of another
\* valid key pair and rejected.
C5_Witness ==
    /\ pc = "signed" /\ ver.who = "B" /\ ver.m = sm
    /\ kpA.d >= 1 /\ kpB.d >= 1 /\ kpB.d # kpA.d
    /\ ~SecondX(ver.r)
    /\ ver.res = "False"

\* C5 witness for the exception: another valid key accepted the signature.
C5_WitnessOtherKeyAccepts ==
    /\ pc = "signed" /\ ver.who = "B" /\ ver.m = sm
    /\ kpA.d >= 1 /\ kpB.d >= 1 /\ kpB.d # kpA.d
    /\ ~SecondX(ver.r)
    /\ ver.res = "True"

\* C6: two calls of Sign with the same key, message and curve return the same
\* (r, s), whatever was drawn from the random source in between.
C6_SignIsDeterministic ==
    \A a \in sigs, b \in sigs : a.m = b.m => (a.r = b.r /\ a.s = b.s)

\* C6, the random source: no step of sign_message draws from it.
C6_SignDrawsNothing ==
    [][(pc \in {"nonce", "compute"} \/ pc' \in {"nonce", "compute"}) =>
          (rng' = rng \/ kpB' # kpB)]_vars

\* C6 witness: the same message was signed twice, with a draw from the random
\* source in between.
C6_Witness ==
    \E a \in sigs, b \in sigs : a.m = b.m /\ a.rng # b.rng

\* C7: every key pair generated has 1 <= d <= n - 1 and the finite public key
\* d * G.
C7_KeyPairsInRange ==
    \A kp \in {kpA, kpB} :
        kp.gen # "none" =>
            /\ 1 <= kp.d /\ kp.d <= CurveTable[curve].n - 1
            /\ kp.Q = Multiply(Generator(curve), kp.d)
            /\ kp.Q.tag = "fin"

\* C7 for ecdh.generate_key_pair alone.
C7_EcdhKeyPairsInRange ==
    \A kp \in {kpA, kpB} :
        kp.gen = "ecdh" =>
            /\ 1 <= kp.d /\ kp.d <= CurveTable[curve].n - 1
            /\ kp.Q = Multiply(Generator(curve), kp.d)
            /\ kp.Q.tag = "fin"

\* C11: for every Point P held or returned, the identity or finite, with
\* y = 0 included: P + Identity == P, Identity + P == P, 0 * P == Identity,
\* -(-P) == P and P + (-P) == Identity.
C11_IdentityAndInverseLaws ==
    \A P \in {regP, res.p, res.q, res.out} :
        ~IsRaise(P) =>
            /\ PointEq(Add(P, Identity(P.curve)), P)
            /\ PointEq(Add(Identity(P.curve), P), P)
            /\ PointEq(Multiply(P, 0), Identity(P.curve))
            /\ PointEq(Negate(Negate(P)), P)
            /\ PointEq(Add(P, Negate(P)), Identity(P.curve))

\* C11 witness: P with y = 0 was added to the Point Negate returned for it,
\* and the sum is the identity.
C11_Witness ==
    /\ res.op = "add"
    /\ res.p.tag = "fin" /\ res.p.y = 0
    /\ res.q = Negate(res.p)
    /\ res.out = Identity(curve)

\* C11 witness for the general case: a Point with y # 0 and its negation.
C11_WitnessGeneral ==
    /\ res.op = "add"
    /\ res.p.tag = "fin" /\ res.p.y % CurveTable[curve].p # 0
    /\ res.q = Negate(res.p)
    /\ res.out = Identity(curve)

\* |k|
Abs(k) == IF k < 0 THEN 0 - k ELSE k

\* P and Q are the same point of the same curve: coordinates congruent mod p.
SamePoint(P, Q) ==
    /\ P.curve = Q.curve /\ P.tag = Q.tag
    /\ (P.x - Q.x) % CurveTable[P.curve].p = 0
    /\ (P.y - Q.y) % CurveTable[P.curve].p = 0

\* C12: k * P is computed for every integer k, negative and >= n included. It
\* is the identity when P is the identity or k = 0 (mod n); for k < 0 it
\* equals (-k) * (-P), the point that adding -P to itself -k times yields; and
\* it ends
\* after one nested call for a negative k and one loop pass per bit of |k|.
C12_MultiplyAnyInteger ==
    res.op = "mul" =>
        /\ ~IsRaise(res.out)
        /\ (IsAtInfinity(res.p) \/ res.k % CurveTable[curve].n = 0) => res.out = Identity(curve)
        /\ res.k < 0 =>
              /\ PointEq(res.out, Multiply(Negate(res.p), 0 - res.k))
              /\ SamePoint(res.out, RepeatedAdd(Negate(res.p), 0 - res.k))
        /\ MultiplyCost(res.p, res.k).calls <= 2
        /\ MultiplyCost(res.p, res.k).calls = 2 => res.k < 0
        /\ MultiplyCost(res.p, res.k).passes \in {0, BitLength(Abs(res.k))}

\* C12 witness: a finite P was multiplied by a k below -n that is no multiple
\* of n, with a finite result after one nested call.
C12_Witness ==
    /\ res.op = "mul"
    /\ res.p.tag = "fin"
    /\ res.k < 0 - CurveTable[curve].n
    /\ res.out.tag = "fin"
    /\ MultiplyCost(res.p, res.k).calls = 2
    /\ MultiplyCost(res.p, res.k).passes = BitLength(Abs(res.k))

\* C12 witness for the identity cases: a finite P times a nonzero multiple of
\* n.
C12_WitnessMultipleOfN ==
    /\ res.op = "mul"
    /\ res.p.tag = "fin"
    /\ res.k = 2 * CurveTable[curve].n
    /\ res.out = Identity(curve)

\* C13: Negate returns the identity for the identity, and for a finite Point
\* (x, y) with coordinates in [0, p) the Point (x, (p - y) mod p), whose
\* coordinates are in [0, p) again; for y = 0 that is the Point itself.
C13_NegateIsReduced ==
    res.op = "neg" =>
        /\ IsAtInfinity(res.p) => res.out = res.p
        /\ (/\ res.p.tag = "fin"
            /\ res.p.x \in 0..(CurveTable[curve].p - 1)
            /\ res.p.y \in 0..(CurveTable[curve].p - 1)) =>
              /\ res.out = Finite(curve, res.p.x, (CurveTable[curve].p - res.p.y) % CurveTable[curve].p)
              /\ res.out.x \in 0..(CurveTable[curve].p - 1)
              /\ res.out.y \in 0..(CurveTable[curve].p - 1)
              /\ res.p.y = 0 => PointEq(res.out, res.p)

\* C13 away from y = 0: for the identity and for 1 <= y <= p - 1 Negate does
\* return (x, p - y), with coordinates in [0, p).
C13_NegateOffTwoTorsion ==
    res.op = "neg" =>
        /\ IsAtInfinity(res.p) => res.out = res.p
        /\ (/\ res.p.tag = "fin"
            /\ res.p.x \in 0..(CurveTable[curve].p - 1)
            /\ res.p.y \in 1..(CurveTable[curve].p - 1)) =>
              /\ res.out = Finite(curve, res.p.x, (CurveTable[curve].p - res.p.y) % CurveTable[curve].p)
              /\ res.out.y \in 1..(CurveTable[curve].p - 1)

\* C13, the case that fails: Negate took a Point with y = 0 and returned one
\* with y = p, which Point.__eq__ tells apart from its operand.
C13_WitnessUnreduced ==
    /\ res.op = "neg"
    /\ res.p.tag = "fin" /\ res.p.y = 0
    /\ res.out.y = CurveTable[curve].p
    /\ ~PointEq(res.out, res.p)

\* The parameters and the generator of two Curve objects match.
SameCurveValue(c1, c2) == CurveTable[c1] = CurveTable[c2]

\* C14: c1 == c2 on Curve objects is True when name, p, a, b, n and generator
\* match, whether or not c1 and c2 are one object, and False otherwise;
\* P == Q is True when the curves are equal and the Points are both the
\* identity or have the same coordinates, and False otherwise, with no
\* exception; and P + Q raises the curve-mismatch error for unequal curves.
C14_EqualityIsStructural ==
    /\ res.op = "ceq" =>
          res.eq = IF SameCurveValue(curve, res.c) THEN "True" ELSE "False"
    /\ res.op = "eq" =>
          res.eq = IF /\ SameCurveValue(res.p.curve, res.q.curve)
                      /\ res.p.tag = res.q.tag /\ res.p.x = res.q.x /\ res.p.y = res.q.y
                   THEN "True" ELSE "False"
    /\ (res.op = "add" /\ ~SameCurveValue(res.p.curve, res.q.curve)) =>
          res.out = Raise("TypeError")

\* C14 for one Curve object and for Curve objects that differ in name, p, a,
\* b or n: there the comparisons end with the structural answer and Add
\* raises the curve-mismatch error.
C14_EqualityOffEqualParameters ==
    /\ (res.op = "ceq" /\ CurveCmp(curve, res.c) # "recursion") =>
          res.eq = IF SameCurveValue(curve, res.c) THEN "True" ELSE "False"
    /\ (res.op = "eq" /\ CurveCmp(res.p.curve, res.q.curve) # "recursion") =>
          res.eq = IF /\ SameCurveValue(res.p.curve, res.q.curve)
                      /\ res.p.tag = res.q.tag /\ res.p.x = res.q.x /\ res.p.y = res.q.y
                   THEN "True" ELSE "False"
    /\ (res.op = "add" /\ CurveCmp(res.p.curve, res.q.curve) = "ne") =>
          res.out = Raise("TypeError")

\* C14, the cases that fail: two Curve objects with the same name, p, a, b and
\* n were compared, or Points on them compared or added, and the comparison of
\* the generators re-entered Curve.__eq__ until RecursionError.
C14_WitnessEqualCopy ==
    res.op = "ceq" /\ res.c # curve /\ SameCurveValue(curve, res.c) /\ res.eq = "RecursionError"

C14_WitnessOtherGenerator ==
    /\ res.op = "eq"
    /\ res.p.curve # res.q.curve
    /\ ~SameCurveValue(res.p.curve, res.q.curve)
    /\ res.eq = "RecursionError"

C14_WitnessAdd ==
    /\ res.op = "add"
    /\ ~SameCurveValue(res.p.curve, res.q.curve)
    /\ res.out = Raise("RecursionError")

\* C14, cases that hold: Points on curves with different parameters compared
\* unequal, and their Add raised the curve-mismatch error.
C14_WitnessDifferentCurves ==
    res.op = "eq" /\ res.p.tag = "fin" /\ res.q.tag = "fin"
        /\ CurveCmp(res.p.curve, res.q.curve) = "ne" /\ res.eq = "False"

\* The affine chord-and-tangent sum of two Points of one curve: the other
\* operand when one is the identity, the identity for operands with the same x
\* and opposite y, else the third intersection of the tangent (same point) or
\* of the chord, reflected.
AffineSum(P, Q) ==
    LET p == CurveTable[P.curve].p
        x1 == P.x % p
        y1 == P.y % p
        x2 == Q.x % p
        y2 == Q.y % p
        l == IF x1 = x2
             THEN ((3 * x1 * x1 + CurveTable[P.curve].a) * ModInv(2 * y1, p)) % p
             ELSE ((y2 - y1) * ModInv(x2 - x1, p)) % p
        x3 == (l * l - x1 - x2) % p
    IN  IF IsAtInfinity(P) THEN Q
        ELSE IF IsAtInfinity(Q) THEN P
        ELSE IF x1 = x2 /\ (y1 + y2) % p = 0 THEN Identity(P.curve)
        ELSE Finite(P.curve, x3, (l * (x1 - x3) - y1) % p)

\* C15: for P and Q on one curve, P + Q raises nothing and is the affine
\* chord-and-tangent sum: Q for P the identity, P for Q the identity, the
\* identity for the same x and opposite y (a Point with y = 0 added to itself
\* included), the tangent doubling for P == Q, the chord sum otherwise; and a
\* finite result satisfies the curve equation.
C15_AddIsGroupLaw ==
    (res.op = "add" /\ res.p.curve = res.q.curve) =>
        /\ ~IsRaise(res.out)
        /\ res.out = AffineSum(res.p, res.q)
        /\ IsAtInfinity(res.p) => res.out = res.q
        /\ IsAtInfinity(res.q) => res.out = res.p
        /\ (res.p.tag = "fin" /\ res.q.tag = "fin") =>
              (IsAtInfinity(res.out) <=>
                  /\ (res.p.x - res.q.x) % CurveTable[curve].p = 0
                  /\ (res.p.y + res.q.y) % CurveTable[curve].p = 0)
        /\ res.out.tag = "fin" => CurveEquationOn(res.out.curve, res.out.x, res.out.y)

\* C15 witness: a finite Point with y # 0 was added to itself (H = 0, R = 0)
\* and the tangent doubling is a finite Point other than the operand.
C15_Witness ==
    /\ res.op = "add"
    /\ res.p = res.q
    /\ res.p.tag = "fin" /\ res.p.y % CurveTable[curve].p # 0
    /\ res.out.tag = "fin"
    /\ res.out # res.p

\* C15 witness for the chord: two finite Points with different x were added.
C15_WitnessChord ==
    /\ res.op = "add"
    /\ res.p.tag = "fin" /\ res.q.tag = "fin"
    /\ (res.p.x - res.q.x) % CurveTable[curve].p # 0
    /\ res.out.tag = "fin"

\* C15 witness for the doubling of a Point with y = 0.
C15_WitnessTwoTorsion ==
    /\ res.op = "add"
    /\ res.p = res.q
    /\ res.p.tag = "fin" /\ res.p.y = 0
    /\ res.out = Identity(curve)

\* C15 witness for H = 0, R # 0: inverse operands with y # 0.
C15_WitnessInverse ==
    /\ res.op = "add"
    /\ res.p.tag = "fin" /\ res.q.tag = "fin"
    /\ res.p.x = res.q.x /\ res.p.y # res.q.y
    /\ res.p.y % CurveTable[curve].p # 0
    /\ res.out = Identity(curve)

====
